---- MODULE Spec2Model ----
(***************************************************************************)
(* Job orchestration and progress streaming of mlx-video-UI.               *)
(*                                                                         *)
(* The browser side (the VideoGenerator component, its progress indicator  *)
(* and parameter panel, the TrainingForm and the API client) is translated *)
(* from the TypeScript sources.  The backend                               *)
(* (job registry, controller, worker adapter, broadcaster) is not part of  *)
(* the sources at hand; it is modelled from the design document, sections  *)
(* 4.1 to 4.4 and 6.                                                       *)
(***************************************************************************)
EXTENDS Integers, Sequences, FiniteSets, TLC

\* ------------------------------------------------------------------ bounds

\* Progress events one worker emits before it exits.
MaxProgress == 2
\* The controller's cap on simultaneously running jobs (section 4.4).
RunCap == 1
\* Cancel requests per job made through the cancel interface.
MaxCancels == 2
\* Page reloads of a browser tab.
MaxReloads == 1
\* Capacity of a subscriber's outbound queue (section 4.3).
QueueCap == 2
\* Raw output lines one worker writes before it exits.
MaxLines == 2
\* Frames on one socket that are not messages of the streaming interface.
MaxNoise == 1
\* Model-list requests of the prompt enhancer that have not answered.
MaxRequests == 3

\* ------------------------------------------------------- program constants

\* setProgress(100) on a complete message.
Full == 100

\* Job ids the registry hands out: one more than the running cap, so that the
\* cap can be exceeded by one submission.
MaxJobs == RunCap + 1
JobIds == 1..MaxJobs
\* No job id: a null jobId, a missing LAST_JOB_KEY item.
NoJob == 0

\* The job a browser session submits and observes.
GenJobs == {1}
\* The jobs submitted and cancelled through the external interfaces.
CtlJobs == {1, 2}

Terminal == {"completed", "error", "stopped"}
NonTerminal == {"pending", "running"}

VARIABLES
    job,        \* registry: job id -> [status, progress, output]
    queue,      \* pending jobs in submission order
    worker,     \* job id -> state of its worker process
    nextJob,    \* next job id to hand out
    cancels,    \* job id -> number of cancel requests received
    reply,      \* the last answer of the cancel interface
    closes,     \* job id -> terminal events published, each closing the topic
    tab,        \* browser tab -> state of its VideoGenerator component
    sock,       \* tab -> job id -> the tab's WebSocket for that job
    lastJob,    \* localStorage[LAST_JOB_KEY], shared by the tabs
    reloads,    \* page reloads so far
    train,      \* state of the TrainingForm component
    history,    \* localStorage[HISTORY_KEY]: the video paths of the history items
    saved       \* localStorage[STORAGE_KEY]: no item, or the one JSON text

serverVars == <<job, queue, worker, nextJob, cancels, reply, closes>>
clientVars == <<tab, sock, lastJob, reloads>>
vars == <<job, queue, worker, nextJob, cancels, reply, closes, tab, sock, lastJob, reloads, train, history, saved>>

\* ---------------------------------------------------------------- events

\* A typed message of the streaming subscription (section 6).  It carries
\* the phase and the label (current_step) of the job's snapshot and its
\* position in the publish order of the job's topic.
Event(type, j, progress, output) ==
    [type |-> type, job |-> j, progress |-> progress, output |-> output,
     phase |-> job[j].phase, label |-> job[j].label, seq |-> job[j].seq + 1]

\* The terminal event of a job in terminal status s.  Section 6 names the
\* message types complete and error; the event of a stopped job is given a
\* type of its own, which no client handler matches.
TerminalType(s) ==
    CASE s = "completed" -> "complete"
      [] s = "error" -> "error"
      [] OTHER -> "stopped"

IsTerminalEvent(e) == e.type \in {"complete", "error", "stopped"}

\* The "current state" event synthesized from the registry's record of j.
SnapshotEvent(j) ==
    [(IF job[j].status \in Terminal
      THEN Event(TerminalType(job[j].status), j, job[j].progress, job[j].output)
      ELSE Event("status", j, job[j].progress, job[j].output))
        EXCEPT !.seq = job[j].seq]

\* ---------------------------------------------------------------- server

\* A job record: status, the last progress snapshot (progress, phase, label),
\* the artifact reference, the number of raw lines parsed so far and the
\* number of events published on its topic.  A label
\* is the set of step keywords its text contains.
FreshJob ==
    [status |-> "none", progress |-> 0, output |-> "none",
     phase |-> 0, label |-> {}, lines |-> 0, seq |-> 0]

\* A worker process that has been launched and not yet reaped.
WorkerAlive(j) == worker[j] \in {"running", "exit0", "exitFail"}

\* A running slot is held while the job is running or its process is alive.
HoldsSlot(j) == job[j].status = "running" \/ WorkerAlive(j)

SlotsInUse == Cardinality({j \in JobIds : HoldsSlot(j)})

\* ------------------------------------------------------------ broadcaster

Tabs == {"A", "B"}

\* A WebSocket: state is the browser's view (free, connecting, open, closing
\* once the server has ended the stream, closed, failed), log the messages the
\* server sent, rd how many of them the page has handled, end how the server
\* ended the stream (none, clean after the terminal event, dropped).
FreshSock ==
    [state |-> "free", log |-> <<>>, rd |-> 0, end |-> "none", gen |-> FALSE]

\* Messages sent on socket s that its client has not yet handled.
InFlight(s) == Len(s.log) - s.rd

\* One subscriber's connection after event e is published on its topic: a
\* subscriber whose bounded queue is full is disconnected instead of blocking
\* the publisher; the terminal event is the last one before the topic closes.
PublishTo(s, e) ==
    IF s.state # "open" THEN s
    ELSE IF InFlight(s) >= QueueCap
         THEN [s EXCEPT !.state = "closing", !.end = "dropped"]
    ELSE IF IsTerminalEvent(e)
         THEN [s EXCEPT !.log = Append(@, e), !.state = "closing", !.end = "clean"]
    ELSE [s EXCEPT !.log = Append(@, e)]

\* publish(jobId, event): fan the event out to the job's subscribers.
Publish(j, e) ==
    /\ closes' = [closes EXCEPT ![j] = IF IsTerminalEvent(e) THEN @ + 1 ELSE @]
    /\ sock' = [t \in Tabs |-> [sock[t] EXCEPT ![j] = PublishTo(@, e)]]

\* A broadcaster that attaches every subscriber to the live stream, whatever
\* the status of the job.
SubscribeAlwaysLive(s, j) ==
    [s EXCEPT !.state = "open", !.log = <<SnapshotEvent(j)>>]

\* subscribe(jobId): replay the current snapshot, then attach to the live
\* stream; for a terminal job deliver the one terminal event and end the stream.
Subscribe(s, j) ==
    IF job[j].status \in Terminal
    THEN [s EXCEPT !.state = "closing", !.log = <<SnapshotEvent(j)>>, !.end = "clean"]
    ELSE [s EXCEPT !.state = "open", !.log = <<SnapshotEvent(j)>>]

\* ------------------------------------------------------------- controller

\* Registry entry created in pending state, queued for admission.
Submit(j) ==
    /\ job' = [job EXCEPT ![j] = [FreshJob EXCEPT !.status = "pending"]]
    /\ queue' = Append(queue, j)
    /\ nextJob' = nextJob + 1

\* Submit job through the external interface (no browser involved).
ApiSubmit(ids) ==
    /\ nextJob \in ids
    /\ Submit(nextJob)
    /\ UNCHANGED <<worker, cancels, reply, closes, clientVars, train, history, saved>>

\* A controller that admits the newest pending job.
NextAdmittedNewest == queue[Len(queue)]

\* The job the controller admits next: the oldest pending one.
NextAdmitted == Head(queue)

CanAdmit == queue # <<>> /\ SlotsInUse < RunCap

\* pending -> running: the worker is started and confirmed.
Admit ==
    /\ CanAdmit
    /\ LET j == NextAdmitted IN
        /\ job' = [job EXCEPT ![j].status = "running"]
        /\ worker' = [worker EXCEPT ![j] = "running"]
    /\ queue' = Tail(queue)
    /\ UNCHANGED <<nextJob, cancels, reply, closes, clientVars, train, history, saved>>

\* The launch of an admitted job fails before the worker wrote anything:
\* immediate terminal error (running -> error), and no process is left.
LaunchFail ==
    \E j \in JobIds :
        /\ job[j].status = "running"
        /\ worker[j] = "running"
        /\ job[j].seq = 0
        /\ job' = [job EXCEPT ![j].status = "error", ![j].seq = @ + 1]
        /\ worker' = [worker EXCEPT ![j] = "reaped"]
        /\ Publish(j, Event("error", j, job[j].progress, job[j].output))
        /\ UNCHANGED <<queue, nextJob, cancels, reply, tab, lastJob, reloads, train, history, saved>>

\* A progress line of the worker, parsed and recorded.
WorkerProgress(j) ==
    /\ worker[j] = "running"
    /\ job[j].status = "running"
    /\ job[j].progress < MaxProgress
    /\ job' = [job EXCEPT ![j].progress = @ + 1, ![j].seq = @ + 1]
    /\ Publish(j, Event("progress", j, job[j].progress + 1, job[j].output))
    /\ UNCHANGED <<queue, worker, nextJob, cancels, reply, tab, lastJob, reloads, train, history, saved>>

\* ----------------------------------------------------------- progress parser

\* The phases in ordinal order (initializing, computing/denoising, decoding,
\* finalizing) and the keyword that marks each in a free-text line.
Phases == 0..3

\* The labels of the raw lines: the sets of phase keywords a line contains.
LineLabels == {{}, {1}, {2}, {1, 2}}

\* The fractions, in percent, that a structured progress line carries.
LineFractions == {10, 90}

\* The raw lines of a worker: structured progress lines carry a fraction,
\* free-text lines only keywords; a line with neither is unrecognized.
RawLines ==
    {[kw |-> k, f |-> f, structured |-> TRUE] : k \in LineLabels, f \in LineFractions}
        \cup {[kw |-> k, f |-> 0, structured |-> FALSE] : k \in LineLabels}

Max(S) == CHOOSE x \in S : \A y \in S : y <= x

\* The phase a line's keywords stand for: the most advanced of them.
MatchedPhase(line, prior) == IF line.kw = {} THEN prior.phase ELSE Max(line.kw)

Recognized(line) == line.structured \/ line.kw # {}

\* parse(line, priorState): the snapshot after a raw line.  A line of a later
\* phase moves the phase and resets the fraction; a line of the current phase
\* never lowers the fraction; a line of an earlier phase changes neither.  The
\* label is the text of the last line that had one.
Parse(line, prior) ==
    IF ~Recognized(line) THEN prior
    ELSE LET m == MatchedPhase(line, prior)
             l == IF line.kw = {} THEN prior.label ELSE line.kw
         IN IF m > prior.phase
            THEN [phase |-> m, progress |-> line.f, label |-> l]
            ELSE IF m = prior.phase /\ line.structured /\ line.f > prior.progress
            THEN [phase |-> m, progress |-> line.f, label |-> l]
            ELSE [prior EXCEPT !.label = l]

\* The snapshot of a job record.
Snapshot(r) == [phase |-> r.phase, progress |-> r.progress, label |-> r.label]

\* A raw output line of the worker: parsed against the job's snapshot, the
\* result recorded and, for a recognized line, published.
WorkerLine(j, line) ==
    /\ worker[j] = "running"
    /\ job[j].status = "running"
    /\ job[j].lines < MaxLines
    /\ LET n == Parse(line, Snapshot(job[j])) IN
        /\ job' = [job EXCEPT ![j].phase = n.phase, ![j].progress = n.progress,
                              ![j].label = n.label, ![j].lines = @ + 1,
                              ![j].seq = IF Recognized(line) THEN @ + 1 ELSE @]
        /\ IF Recognized(line)
           THEN Publish(j, [Event("progress", j, n.progress, job[j].output)
                               EXCEPT !.phase = n.phase, !.label = n.label])
           ELSE UNCHANGED <<closes, sock>>
    /\ UNCHANGED <<queue, worker, nextJob, cancels, reply, tab, lastJob, reloads, train, history, saved>>

\* An artifact-path line: a temporary preview file or the final output.
WorkerArtifact(j, kind) ==
    /\ worker[j] = "running"
    /\ job[j].status = "running"
    /\ \/ kind = "temp" /\ job[j].output = "none"
       \/ kind = "final" /\ job[j].output # "final"
    /\ job' = [job EXCEPT ![j].output = kind, ![j].seq = @ + 1]
    /\ Publish(j, Event("progress", j, job[j].progress, kind))
    /\ UNCHANGED <<queue, worker, nextJob, cancels, reply, tab, lastJob, reloads, train, history, saved>>

\* An error-kind line: running -> error while the process is still alive.
WorkerErrorLine(j) ==
    /\ worker[j] = "running"
    /\ job[j].status = "running"
    /\ job' = [job EXCEPT ![j].status = "error", ![j].seq = @ + 1]
    /\ Publish(j, Event("error", j, job[j].progress, job[j].output))
    /\ UNCHANGED <<queue, worker, nextJob, cancels, reply, tab, lastJob, reloads, train, history, saved>>

\* The worker process exits, by itself or killed after a cancel.
WorkerExit(j, code) ==
    /\ worker[j] = "running"
    /\ worker' = [worker EXCEPT ![j] = IF code = 0 THEN "exit0" ELSE "exitFail"]
    /\ UNCHANGED <<job, queue, nextJob, cancels, reply, closes, clientVars, train, history, saved>>

\* A controller that trusts the exit code alone.
ExitStatusByCode(j) ==
    IF worker[j] = "exit0" THEN "completed" ELSE "error"

\* The status the controller derives from an exit.
ExitStatus(j) ==
    IF worker[j] = "exit0" /\ job[j].output = "final" THEN "completed" ELSE "error"

\* A controller that records every exit, whatever the entry's status.
FinalizeOverwrites(j) ==
    /\ worker[j] \in {"exit0", "exitFail"}
    /\ worker' = [worker EXCEPT ![j] = "reaped"]
    /\ job' = [job EXCEPT ![j].status = ExitStatusByCode(j)]
    /\ UNCHANGED <<queue, nextJob, cancels, reply, closes, clientVars, train, history, saved>>

\* wait() returned: finalize the registry entry unless it is terminal already.
Finalize(j) ==
    /\ worker[j] \in {"exit0", "exitFail"}
    /\ worker' = [worker EXCEPT ![j] = "reaped"]
    /\ IF job[j].status \in Terminal
       THEN UNCHANGED <<job, closes, sock>>
       ELSE LET s == ExitStatus(j)
                p == IF s = "completed" THEN Full ELSE job[j].progress
            IN /\ job' = [job EXCEPT ![j].status = s, ![j].progress = p, ![j].seq = @ + 1]
               /\ Publish(j, Event(TerminalType(s), j, p, job[j].output))
    /\ UNCHANGED <<queue, nextJob, cancels, reply, tab, lastJob, reloads, train, history, saved>>

RemoveFromQueue(q, j) == SelectSeq(q, LAMBDA x : x # j)

\* A cancel that stops the job whatever its status.
CancelAlways(j) ==
    /\ job' = [job EXCEPT ![j].status = "stopped", ![j].seq = @ + 1]
    /\ queue' = RemoveFromQueue(queue, j)
    /\ Publish(j, Event("stopped", j, job[j].progress, job[j].output))

\* A cancel that leaves a pending job in the admission queue.
CancelKeepsQueued(j) ==
    IF job[j].status \in NonTerminal
    THEN /\ job' = [job EXCEPT ![j].status = "stopped", ![j].seq = @ + 1]
         /\ queue' = queue
         /\ Publish(j, Event("stopped", j, job[j].progress, job[j].output))
    ELSE UNCHANGED <<job, queue, closes, sock>>

\* What cancel does to the registry, the queue and the topic of a known job.
CancelEffect(j) ==
    IF job[j].status \in NonTerminal
    THEN /\ job' = [job EXCEPT ![j].status = "stopped", ![j].seq = @ + 1]
         /\ queue' = RemoveFromQueue(queue, j)
         /\ Publish(j, Event("stopped", j, job[j].progress, job[j].output))
    ELSE UNCHANGED <<job, queue, closes, sock>>

\* The cancel request for job j as the server handles it: NotFound for an
\* unknown id, otherwise the effect above and an ok answer.
CancelRequest(j) ==
    /\ cancels[j] < MaxCancels
    /\ cancels' = [cancels EXCEPT ![j] = @ + 1]
    /\ IF job[j].status = "none"
       THEN reply' = "not_found" /\ UNCHANGED <<job, queue, closes, sock>>
       ELSE reply' = "ok" /\ CancelEffect(j)

\* Cancel job through the external interface (no browser involved).
Cancel(j) ==
    /\ CancelRequest(j)
    /\ UNCHANGED <<worker, nextJob, tab, lastJob, reloads, train, history, saved>>

\* ------------------------------------------------------------ TrainingForm

TrainInit == [status |-> "pending", jobId |-> NoJob, error |-> "none"]

isTraining == train.status \in {"training", "pending"}

\* The Stop Training button, rendered while isTraining: without a job id
\* nothing is sent; otherwise stopTraining, which throws unless the answer is ok.
handleStopTraining ==
    /\ isTraining
    /\ IF train.jobId # NoJob
       THEN /\ CancelRequest(train.jobId)
            /\ train' = IF reply' = "ok"
                        THEN [train EXCEPT !.status = "stopped"]
                        ELSE [train EXCEPT !.error = "stop"]
            /\ UNCHANGED <<worker, nextJob, tab, lastJob, reloads, history, saved>>
       ELSE UNCHANGED vars


\* --------------------------------------------------------- VideoGenerator

\* The providers of the prompt enhancer and the base URL of each.
EnhanceProviders == {"ollama", "lmstudio"}

enhanceDefaults ==
    [ollama |-> "http://127.0.0.1:11434", lmstudio |-> "http://127.0.0.1:1234"]

\* A getEnhanceModels call of the loadModels effect: the provider and base
\* URL it asks for, the enhanceModel of the render its effect belongs to, and
\* the cancelled flag of that effect.
ModelsRequest(provider, baseUrl, model) ==
    [provider |-> provider, baseUrl |-> baseUrl, model |-> model,
     cancelled |-> FALSE]

\* The component's state after mount: status, progress, error, videoPath,
\* currentStep (step: the keywords its text contains),
\* and, as a history of what was shown, the phase of the snapshot that the
\* shown progress and step came from (the component keeps only the text),
\* and of the generation parameters (defaultParams) width, height and
\* num_frames,
\* whether a temp-file probe is the current video request, and the pending
\* asynchronous calls (startGeneration, getJobStatus).  The probes of
\* setVideoPathSafe are kept relative to videoRequestId.current: probe says
\* that the probe whose requestId is the current one is running and attempt
\* how many HEAD requests of it failed; a probe with an older requestId runs
\* on without effect and is not kept.  cleared records that handleGenerate
\* cleared the video path after the running probe was started.  pcDefaults
\* holds the pending loadDefaults calls, each by the value of defaultsApplied
\* its closure has; hardware is the hardware info once loaded.  merged
\* records how often the server defaults were merged into the parameters.  Of
\* the other parameters the component holds prompt, pipeline and the paths of
\* the conditioning image and video ("none": undefined).  Of the prompt
\* enhancer it holds the provider, the base URL, the model list, the selected
\* model, the error as far as loadModels sets it, and the getEnhanceModels
\* calls that have not answered (requests); discarded records that an answer
\* was dropped because its effect had been cleaned up.
FreshTab ==
    [status |-> "idle", progress |-> 0, error |-> "none", videoPath |-> "none",
     probe |-> FALSE, pcGen |-> "idle", pcResume |-> NoJob, step |-> {},
     phase |-> 0, width |-> 512, height |-> 512, num_frames |-> 33,
     attempt |-> 0, cleared |-> FALSE,
     pcDefaults |-> {FALSE}, defaultsApplied |-> FALSE, hardware |-> "none",
     merged |-> 0,
     prompt |-> "", pipeline |-> "distilled", conditioning_image |-> "none",
     video_conditioning |-> "none", isEnhancing |-> FALSE,
     enhanceProvider |-> "ollama", enhanceBaseUrl |-> enhanceDefaults["ollama"],
     enhanceModels |-> <<>>, enhanceModel |-> "", enhanceError |-> "none",
     requests |-> {ModelsRequest("ollama", enhanceDefaults["ollama"], "")},
     discarded |-> FALSE]

\* The status names of the HTTP/WebSocket interface.
WireStatus(s) == IF s = "running" THEN "processing" ELSE s

\* A setVideoPathSafe without the shortcut for final files: every path is
\* shown only once its probe succeeds.
setVideoPathSafeProbeAll(c, path) ==
    IF path = "none" THEN c
    ELSE [c EXCEPT !.probe = TRUE, !.attempt = 0, !.cleared = FALSE]

\* setVideoPathSafe(path): a final path is shown at once; a temp path only
\* once a HEAD probe succeeds, and only if no later call superseded it.
\* ++videoRequestId.current makes every running probe one of an older request.
NewRequest(c) ==
    [c EXCEPT !.probe = FALSE, !.attempt = 0, !.cleared = FALSE]

setVideoPathSafe(c, path) ==
    IF path = "none" THEN c
    ELSE IF path # "temp" THEN [NewRequest(c) EXCEPT !.videoPath = path]
    ELSE [NewRequest(c) EXCEPT !.probe = TRUE]

\* The attempts of one probe: for (attempt = 0; attempt < 10; attempt += 1).
MaxAttempts == 10

\* A HEAD probe of the current temp path answers ok.
ProbeOk(t) ==
    /\ tab[t].probe
    /\ tab' = [tab EXCEPT ![t].videoPath = "temp", ![t].probe = FALSE,
                          ![t].attempt = 0, ![t].cleared = FALSE]
    /\ UNCHANGED <<serverVars, sock, lastJob, reloads, train, history, saved>>

\* The last HEAD probe fails as the ones before: the loop ends.
ProbeGiveUp(t) ==
    /\ tab[t].probe
    /\ tab' = [tab EXCEPT ![t].probe = FALSE, ![t].attempt = 0, ![t].cleared = FALSE]
    /\ UNCHANGED <<serverVars, sock, lastJob, reloads, train, history, saved>>

\* A HEAD probe that is not the last one fails or is answered not ok: the
\* loop waits 500 ms and tries again.
ProbeRetry(t) ==
    /\ tab[t].probe
    /\ tab[t].attempt + 1 < MaxAttempts
    /\ tab' = [tab EXCEPT ![t].attempt = @ + 1]
    /\ UNCHANGED <<serverVars, sock, lastJob, reloads, train, history, saved>>

\* The tenth HEAD probe fails too.
ProbeLastFail(t) ==
    /\ tab[t].attempt + 1 = MaxAttempts
    /\ ProbeGiveUp(t)

\* The thresholds, in percent, of the indicator's steps Initializing,
\* Denoising, Decoding, Finalizing.
steps == <<0, 10, 85, 95>>

\* getCurrentStepIndex of the progress indicator, counted from 0: the step of
\* the most advanced keyword in the current step text (3: saving, finaliz,
\* mux; 2: decod; 1: denois; 0: load, encod), and for a text without
\* keywords the last step whose threshold the progress has reached.
getCurrentStepIndex(c) ==
    IF 3 \in c.step THEN 3
    ELSE IF 2 \in c.step THEN 2
    ELSE IF 1 \in c.step THEN 1
    ELSE IF 0 \in c.step THEN 0
    ELSE IF \E i \in 1..Len(steps) : c.progress >= steps[i]
    THEN Max({i \in 1..Len(steps) : c.progress >= steps[i]}) - 1
    ELSE 0

isGenerating(c) == c.status \in {"processing", "pending"}

\* The prompts that are typed: none, blanks, a text.
Prompts == {"", " ", "text"}

\* params.prompt.trim().
Trim(text) == IF text = " " THEN "" ELSE text

missingVideo(c) == c.pipeline = "ic_lora" /\ c.video_conditioning = "none"

missingImage(c) == c.pipeline = "keyframe" /\ c.conditioning_image = "none"

\* canGenerate: the Generate button is disabled unless it holds.
canGenerate(c) ==
    /\ Trim(c.prompt) # ""
    /\ ~isGenerating(c)
    /\ ~c.isEnhancing
    /\ ~missingVideo(c)
    /\ ~missingImage(c)

\* An onMessage callback that shows fraction 0 for every progress or status
\* message, as "update.progress || 0" does for a message without the field.
onMessageDropsFraction(c, e) ==
    IF e.type \in {"progress", "status"}
    THEN setVideoPathSafe([c EXCEPT !.status = "processing", !.progress = 0,
                                    !.step = e.label, !.phase = e.phase],
                          e.output)
    ELSE IF e.type = "complete"
    THEN setVideoPathSafe([c EXCEPT !.status = "completed", !.progress = Full],
                          e.output)
    ELSE IF e.type = "error"
    THEN [c EXCEPT !.status = "error", !.error = "job"]
    ELSE c

\* An onMessage callback that ignores status messages, as the one of the
\* older VideoGenerator (video-generator.tsx) does.
onMessageProgressOnly(c, e) ==
    IF e.type = "progress"
    THEN setVideoPathSafe([c EXCEPT !.status = "processing", !.progress = e.progress,
                                    !.step = e.label, !.phase = e.phase],
                          e.output)
    ELSE IF e.type = "complete"
    THEN setVideoPathSafe([c EXCEPT !.status = "completed", !.progress = Full],
                          e.output)
    ELSE IF e.type = "error"
    THEN [c EXCEPT !.status = "error", !.error = "job"]
    ELSE c

\* The onMessage callback both connectWebSocket calls install.
onMessage(c, e) ==
    IF e.type \in {"progress", "status"}
    THEN setVideoPathSafe([c EXCEPT !.status = "processing", !.progress = e.progress,
                                    !.step = e.label, !.phase = e.phase],
                          e.output)
    ELSE IF e.type = "complete"
    THEN setVideoPathSafe([c EXCEPT !.status = "completed", !.progress = Full],
                          e.output)
    ELSE IF e.type = "error"
    THEN [c EXCEPT !.status = "error", !.error = "job"]
    ELSE c

\* The message types the callbacks have a branch for.
KnownTypes == {"progress", "status", "complete", "error"}

\* JSON.parse(event.data) returns an update: the frame is JSON text.
Parses(frame) == frame.type # "malformed"

\* A ws.onmessage without a handler for what the callback cannot use: the
\* connection is given up as lost.
wsOnMessageStrict(c, frame) ==
    IF Parses(frame) /\ frame.type \in KnownTypes
    THEN onMessage(c, frame)
    ELSE [c EXCEPT !.status = "error", !.error = "lost"]

\* ws.onmessage of connectWebSocket: the frame is parsed and handed to the
\* callback inside a try block; the catch block only logs.
wsOnMessage(c, frame) ==
    IF Parses(frame) THEN onMessage(c, frame) ELSE c

\* localStorage.removeItem(LAST_JOB_KEY) in the complete and error branches.
RemovesLastJob(e) == e.type \in {"complete", "error"}

\* An onError callback that also ends the display of the job.
onErrorEndsJob(c) == [c EXCEPT !.error = "lost", !.status = "error"]

\* The onError callback: () => setError("Connection lost").
onError(c) == [c EXCEPT !.error = "lost"]

\* The onClose callback: () => {}.
onClose(c) == c

\* Click on Generate: the synchronous part of handleGenerate, while the
\* server still has a job id of ids to hand out.  With Auto Enhance on, as it
\* is by default, the prompt enhancement is awaited first and isEnhancing is
\* set until it has ended, which is when startGeneration is called.
HandleGenerateIn(t, ids) ==
    /\ canGenerate(tab[t])
    /\ tab[t].pcGen = "idle"
    /\ nextJob \in ids
    /\ tab' = [tab EXCEPT ![t].status = "pending", ![t].progress = 0,
                          ![t].error = "none", ![t].videoPath = "none",
                          ![t].step = {}, ![t].phase = 0, ![t].pcGen = "starting",
                          ![t].cleared = tab[t].probe, ![t].isEnhancing = TRUE]
    /\ UNCHANGED <<serverVars, sock, lastJob, reloads, train, history, saved>>

\* Click on Generate.  Accepted submissions are bounded by the job ids of
\* GenJobs.
HandleGenerate(t) == HandleGenerateIn(t, GenJobs)

\* startGeneration resolves with the id of the new job: it is stored as the
\* last job and a socket is opened for it.
StartGenerationResolveIn(t, ids) ==
    /\ tab[t].pcGen = "starting"
    /\ nextJob \in ids
    /\ Submit(nextJob)
    /\ lastJob' = nextJob
    /\ sock' = [sock EXCEPT ![t][nextJob] =
                    [FreshSock EXCEPT !.state = "connecting", !.gen = TRUE]]
    /\ tab' = [tab EXCEPT ![t].pcGen = "idle", ![t].isEnhancing = FALSE]
    /\ UNCHANGED <<worker, cancels, reply, closes, reloads, train, history, saved>>

\* startGeneration resolves: the job exists, its id is stored, a socket opens.
StartGenerationResolve(t) == StartGenerationResolveIn(t, GenJobs)

\* A catch block that swallows the failure of startGeneration.
StartGenerationRejectSilently(t) ==
    /\ tab[t].pcGen = "starting"
    /\ tab' = [tab EXCEPT ![t].pcGen = "idle", ![t].isEnhancing = FALSE]
    /\ UNCHANGED <<serverVars, sock, lastJob, reloads, train, history, saved>>

\* startGeneration throws: the catch block of handleGenerate.
StartGenerationReject(t) ==
    /\ tab[t].pcGen = "starting"
    /\ tab' = [tab EXCEPT ![t].status = "error", ![t].error = "submit",
                          ![t].pcGen = "idle", ![t].isEnhancing = FALSE]
    /\ UNCHANGED <<serverVars, sock, lastJob, reloads, train, history, saved>>

\* The server accepts the WebSocket and subscribes it to the job's topic.
WsAccept(t, j) ==
    /\ sock[t][j].state = "connecting"
    /\ sock' = [sock EXCEPT ![t][j] = Subscribe(@, j)]
    /\ UNCHANGED <<serverVars, tab, lastJob, reloads, train, history, saved>>

\* The callback of handleGenerate, unlike the one of resumeLastJob, adds the
\* finished video to the history.
AddsToHistory(s, e) == s.gen /\ e.type = "complete"

\* A socket that hands the newest message that arrived to the handler,
\* before the older ones.
WsDeliverNewest(t, j) ==
    /\ sock[t][j].state \in {"open", "closing"}
    /\ sock[t][j].rd < Len(sock[t][j].log)
    /\ LET s == sock[t][j]
           e == s.log[Len(s.log)]
       IN /\ tab' = [tab EXCEPT ![t] = wsOnMessage(@, e)]
          /\ lastJob' = IF RemovesLastJob(e) THEN NoJob ELSE lastJob
          /\ history' = IF AddsToHistory(s, e) THEN history \cup {e.output} ELSE history
          /\ sock' = [sock EXCEPT ![t][j].rd = @ + 1,
                                  ![t][j].log = [@ EXCEPT ![s.rd + 1] = e,
                                                          ![Len(s.log)] = s.log[s.rd + 1]]]
    /\ UNCHANGED <<serverVars, reloads, train, saved>>

\* ws.onmessage: the next message in order is handled.
WsDeliver(t, j) ==
    /\ sock[t][j].state \in {"open", "closing"}
    /\ sock[t][j].rd < Len(sock[t][j].log)
    /\ LET e == sock[t][j].log[sock[t][j].rd + 1] IN
        /\ tab' = [tab EXCEPT ![t] = wsOnMessage(@, e)]
        /\ lastJob' = IF RemovesLastJob(e) THEN NoJob ELSE lastJob
        /\ history' = IF AddsToHistory(sock[t][j], e)
                      THEN history \cup {e.output}
                      ELSE history
    /\ sock' = [sock EXCEPT ![t][j].rd = @ + 1]
    /\ UNCHANGED <<serverVars, reloads, train, saved>>

\* The frames a peer may send that are no message of the interface: text
\* that is not JSON, and a message of a type the interface does not name.
\* Both carry what a progress message would carry.
NoiseTypes == {"malformed", "heartbeat"}

IsNoise(e) == e.type \notin KnownTypes \cup {"stopped"}

NoiseIn(s) == Cardinality({i \in 1..Len(s.log) : IsNoise(s.log[i])})

\* Such a frame arrives on an open socket, between the messages of the job.
WsNoise(t, j) ==
    /\ sock[t][j].state = "open"
    /\ InFlight(sock[t][j]) < QueueCap
    /\ NoiseIn(sock[t][j]) < MaxNoise
    /\ \E ty \in NoiseTypes :
          sock' = [sock EXCEPT ![t][j].log =
                      Append(@, [Event("progress", j, Full, "final")
                                    EXCEPT !.type = ty, !.label = {2},
                                           !.seq = job[j].seq])]
    /\ UNCHANGED <<serverVars, tab, lastJob, reloads, train, history, saved>>

\* ws.onclose after the server ended the stream and all messages were handled.
WsClose(t, j) ==
    /\ sock[t][j].state = "closing"
    /\ sock[t][j].rd = Len(sock[t][j].log)
    /\ sock' = [sock EXCEPT ![t][j].state = "closed"]
    /\ tab' = [tab EXCEPT ![t] = onClose(@)]
    /\ UNCHANGED <<serverVars, lastJob, reloads, train, history, saved>>

\* A connection failure that takes the job's other connections down with it.
WsErrorTakesAll(t, j) ==
    /\ sock[t][j].state \in {"connecting", "open", "closing"}
    /\ sock' = [u \in Tabs |-> [sock[u] EXCEPT ![j].state =
                    IF @ \in {"connecting", "open", "closing"} THEN "failed" ELSE @]]
    /\ tab' = [tab EXCEPT ![t] = onClose(onError(@))]
    /\ UNCHANGED <<serverVars, lastJob, reloads, train, history, saved>>

\* ws.onerror: the connection fails; messages not yet handled are lost.
WsError(t, j) ==
    /\ sock[t][j].state \in {"connecting", "open", "closing"}
    /\ sock' = [sock EXCEPT ![t][j].state = "failed"]
    /\ tab' = [tab EXCEPT ![t] = onClose(onError(@))]
    /\ UNCHANGED <<serverVars, lastJob, reloads, train, history, saved>>

\* The keys of the generation parameters, and those of them that
\* defaultParams has.
Keys ==
    {"prompt", "pipeline", "width", "height", "num_frames",
     "conditioning_image", "video_conditioning"}

AllowedKeys == {"prompt", "pipeline", "width", "height", "num_frames"}

\* The keys whose value may be undefined ("none").
OptionalKeys == Keys \ AllowedKeys

defaultParams == [k \in AllowedKeys |-> FreshTab[k]]

\* The params state of a component.
Params(c) == [k \in Keys |-> c[k]]

\* JSON.stringify(params): a key whose value is undefined is left out.
stringify(p) ==
    [k \in {x \in Keys : ~(x \in OptionalKeys /\ p[x] = "none")} |-> p[k]]

\* JSON.parse(saved): the object with the keys of the text.
JSONparse(text) == text

\* sanitizeParams(raw): the keys of defaultParams are taken from raw, the
\* others are dropped, and what raw lacks comes from defaultParams.
sanitizeParams(raw) ==
    [k \in Keys |->
        IF k \in AllowedKeys
        THEN IF k \in DOMAIN raw THEN raw[k] ELSE defaultParams[k]
        ELSE "none"]

\* The params state after the storage-load effect.
Restored == IF saved = {} THEN Params(FreshTab)
            ELSE sanitizeParams(JSONparse(CHOOSE text \in saved : TRUE))

\* setParams(p).
setParams(c, p) ==
    [c EXCEPT !.prompt = p.prompt, !.pipeline = p.pipeline,
              !.width = p.width, !.height = p.height, !.num_frames = p.num_frames,
              !.conditioning_image = p.conditioning_image,
              !.video_conditioning = p.video_conditioning]

\* The effect on params.pipeline and params.video_conditioning: a
\* conditioning video is dropped unless the pipeline is ic_lora.
pipelineEffect(c) ==
    IF c.pipeline # "ic_lora" /\ c.video_conditioning # "none"
    THEN [c EXCEPT !.video_conditioning = "none"]
    ELSE c

\* updateParams(updates) on session t, c being the component with the updates
\* applied: the effects on params run after the render, the storage-save
\* effect writes the parameters.
updateParams(t, c) ==
    /\ tab' = [tab EXCEPT ![t] = pipelineEffect(c)]
    /\ saved' = {stringify(Params(pipelineEffect(c)))}
    /\ UNCHANGED <<serverVars, sock, lastJob, reloads, train, history>>

\* The prompt textarea.
PromptInput(t, text) ==
    updateParams(t, [tab[t] EXCEPT !.prompt = text])

\* The user types a prompt.
FillIn(t) == PromptInput(t, "text")

\* The pipeline choice of the model selector.
PipelineChange(t, v) ==
    updateParams(t, [tab[t] EXCEPT !.pipeline = v])

\* A conditioning image was uploaded, or is removed.
ConditioningImage(t, path) ==
    updateParams(t, [tab[t] EXCEPT !.conditioning_image = path])

\* A conditioning video was uploaded, or is removed.
VideoConditioning(t, path) ==
    updateParams(t, [tab[t] EXCEPT !.video_conditioning = path])

\* The Enhance button: runEnhance up to its await.
RunEnhance(t) ==
    /\ Trim(tab[t].prompt) # ""
    /\ ~tab[t].isEnhancing
    /\ tab' = [tab EXCEPT ![t].isEnhancing = TRUE]
    /\ UNCHANGED <<serverVars, sock, lastJob, reloads, train, history, saved>>

\* performEnhance of runEnhance resolves, and the enhanced prompt is inserted.
EnhanceResolve(t) ==
    /\ tab[t].isEnhancing
    /\ tab[t].pcGen = "idle"
    /\ updateParams(t, [tab[t] EXCEPT !.prompt = "text", !.isEnhancing = FALSE])

\* performEnhance of runEnhance throws.
EnhanceReject(t) ==
    /\ tab[t].isEnhancing
    /\ tab[t].pcGen = "idle"
    /\ tab' = [tab EXCEPT ![t].isEnhancing = FALSE]
    /\ UNCHANGED <<serverVars, sock, lastJob, reloads, train, history, saved>>

\* What the base URL input may hold: the URL of a provider, or blanks.
BaseUrls == {enhanceDefaults[p] : p \in EnhanceProviders} \cup {" "}

\* The model lists a provider may answer with.
ModelLists == {<<>>, <<"m1">>, <<"m2", "m1">>}

\* enhanceBaseUrl.trim() || enhanceDefaults[enhanceProvider].
baseUrlOf(provider, text) ==
    IF Trim(text) = "" THEN enhanceDefaults[provider] ELSE Trim(text)

\* The cleanup of the loadModels effect sets the cancelled flag of its call.
cancel(requests) == {[r EXCEPT !.cancelled = TRUE] : r \in requests}

\* The loadModels effect runs for the render c: the cleanup of its previous
\* run, then loadModels up to its await.
loadModelsEffect(c) ==
    [c EXCEPT !.requests =
                  cancel(@) \cup {ModelsRequest(c.enhanceProvider,
                                                baseUrlOf(c.enhanceProvider, c.enhanceBaseUrl),
                                                c.enhanceModel)},
              !.enhanceError = "none"]

\* The effect that resets the base URL after the provider changed, and the
\* loadModels effect of the render that follows if the URL is another.
resetBaseUrlEffect(c) ==
    IF c.enhanceBaseUrl = enhanceDefaults[c.enhanceProvider]
    THEN c
    ELSE loadModelsEffect([c EXCEPT !.enhanceBaseUrl = enhanceDefaults[c.enhanceProvider]])

\* The enhancer pending calls are bounded.
WithinRequests(c) == Cardinality(c.requests) <= MaxRequests

\* The provider select: the render with the new provider runs the loadModels
\* effect with the base URL it has, and the reset of the base URL.
ProviderChange(t, provider) ==
    /\ provider # tab[t].enhanceProvider
    /\ LET c == resetBaseUrlEffect(loadModelsEffect(
                     [tab[t] EXCEPT !.enhanceProvider = provider]))
       IN /\ WithinRequests(c)
          /\ tab' = [tab EXCEPT ![t] = c]
    /\ UNCHANGED <<serverVars, sock, lastJob, reloads, train, history, saved>>

\* The base URL input.
BaseUrlInput(t, text) ==
    /\ text # tab[t].enhanceBaseUrl
    /\ LET c == loadModelsEffect([tab[t] EXCEPT !.enhanceBaseUrl = text])
       IN /\ WithinRequests(c)
          /\ tab' = [tab EXCEPT ![t] = c]
    /\ UNCHANGED <<serverVars, sock, lastJob, reloads, train, history, saved>>

Includes(list, m) == \E i \in 1..Len(list) : list[i] = m

\* The model select, disabled while the list is empty.
ModelSelect(t, m) ==
    /\ Includes(tab[t].enhanceModels, m)
    /\ m # tab[t].enhanceModel
    /\ tab' = [tab EXCEPT ![t].enhanceModel = m]
    /\ UNCHANGED <<serverVars, sock, lastJob, reloads, train, history, saved>>

\* A loadModels that applies whatever answer it gets.
appliesAlways(r) == TRUE

\* if (cancelled) return, if (!cancelled): the answer of a call is applied
\* unless its effect was cleaned up.
applies(r) == ~r.cancelled

\* getEnhanceModels of call r resolves with the list.
ModelsResolve(t, r, list) ==
    /\ r \in tab[t].requests
    /\ tab' = [tab EXCEPT ![t] =
                   IF applies(r)
                   THEN [@ EXCEPT !.requests = @ \ {r},
                                  !.enhanceModels = list,
                                  !.enhanceModel =
                                      IF Includes(list, r.model) THEN @
                                      ELSE IF list = <<>> THEN "" ELSE list[1]]
                   ELSE [@ EXCEPT !.requests = @ \ {r}, !.discarded = TRUE]]
    /\ UNCHANGED <<serverVars, sock, lastJob, reloads, train, history, saved>>

\* getEnhanceModels of call r throws.
ModelsReject(t, r) ==
    /\ r \in tab[t].requests
    /\ tab' = [tab EXCEPT ![t] =
                   IF applies(r)
                   THEN [@ EXCEPT !.requests = @ \ {r},
                                  !.enhanceModels = <<>>,
                                  !.enhanceModel = "",
                                  !.enhanceError = "models"]
                   ELSE [@ EXCEPT !.requests = @ \ {r}, !.discarded = TRUE]]
    /\ UNCHANGED <<serverVars, sock, lastJob, reloads, train, history, saved>>

\* The enhancer of a component c that has just mounted, provider and model
\* being what ENHANCE_KEY holds: the first effects run with the initial
\* state, the storage-load effect sets the saved provider and model, and the
\* base URL it sets is replaced by that of the reset effect, which runs after
\* it; the next render runs the effects of a changed provider.
mountEnhancer(c, provider, model) ==
    LET restored == [c EXCEPT !.enhanceProvider = provider,
                              !.enhanceModel = model]
    IN IF provider = c.enhanceProvider
       THEN restored
       ELSE resetBaseUrlEffect(loadModelsEffect(restored))

\* The page is (re)loaded: the component starts afresh, the storage-load
\* effect restores the saved parameters and enhancer settings, loadDefaults
\* is called, the sockets are gone,
\* and resumeLastJob asks for the status of the stored job id.
Reload(t) ==
    /\ reloads < MaxReloads
    /\ reloads' = reloads + 1
    /\ tab' = [tab EXCEPT ![t] =
                   mountEnhancer(
                       setParams([FreshTab EXCEPT !.pcResume = lastJob], Restored),
                       tab[t].enhanceProvider, tab[t].enhanceModel)]
    /\ sock' = [sock EXCEPT ![t] = [j \in JobIds |-> FreshSock]]
    /\ UNCHANGED <<serverVars, lastJob, train, history, saved>>

\* The storage-save effect after the render in which storageLoaded became
\* true (the one after a change of params is part of that change).
SaveEffect(t) ==
    /\ saved # {stringify(Params(tab[t]))}
    /\ saved' = {stringify(Params(tab[t]))}
    /\ UNCHANGED <<serverVars, clientVars, train, history>>

\* The generation part of the answers of getDefaultSettings that are tried.
DefaultsGeneration == {[num_frames |-> 65], [width |-> 768, height |-> 512, num_frames |-> 33]}

\* { ...prev, ...defaults.generation }.
Merge(prev, d) == [k \in Keys |-> IF k \in DOMAIN d THEN d[k] ELSE prev[k]]

\* loadDefaults: !defaultsApplied && !saved, with saved read from the storage
\* when both answers have arrived.
loadDefaultsMerges(applied) == ~applied /\ saved = {}

\* getDefaultSettings and getHardwareInfo resolve inside a loadDefaults call.
\* Setting defaultsApplied runs the effect, and so loadDefaults, again.
DefaultsResolve(t) ==
    /\ \E applied \in tab[t].pcDefaults, d \in DefaultsGeneration :
          IF loadDefaultsMerges(applied)
          THEN updateParams(t, [setParams(tab[t], Merge(Params(tab[t]), d))
                                   EXCEPT !.hardware = "loaded",
                                          !.defaultsApplied = TRUE,
                                          !.merged = @ + 1,
                                          !.pcDefaults = (@ \ {applied}) \cup {TRUE}])
          ELSE /\ tab' = [tab EXCEPT ![t].hardware = "loaded",
                                     ![t].pcDefaults = @ \ {applied}]
               /\ UNCHANGED <<serverVars, sock, lastJob, reloads, train, history, saved>>

\* One of the two requests of a loadDefaults call fails: the catch block.
DefaultsReject(t) ==
    /\ \E applied \in tab[t].pcDefaults :
          tab' = [tab EXCEPT ![t].pcDefaults = @ \ {applied}]
    /\ UNCHANGED <<serverVars, sock, lastJob, reloads, train, history, saved>>

\* A status read that answers with the record as it was created, not as it
\* is at call time.
ResumePollStale(t) ==
    /\ tab[t].pcResume # NoJob
    /\ LET j == tab[t].pcResume
           r == [FreshJob EXCEPT !.status = "pending"]
           s == WireStatus(r.status)
       IN /\ tab' = [tab EXCEPT ![t] =
                       setVideoPathSafe(
                           [@ EXCEPT !.status = s, !.progress = r.progress,
                                     !.step = r.label, !.phase = r.phase,
                                     !.error = "none", !.pcResume = NoJob],
                           r.output)]
          /\ sock' = [sock EXCEPT ![t][j] = [FreshSock EXCEPT !.state = "connecting"]]
    /\ UNCHANGED <<serverVars, lastJob, reloads, train, history, saved>>

\* getJobStatus resolves inside resumeLastJob.
ResumePollResolve(t) ==
    /\ tab[t].pcResume # NoJob
    /\ LET j == tab[t].pcResume
           r == job[j]
           s == WireStatus(r.status)
       IN /\ tab' = [tab EXCEPT ![t] =
                       setVideoPathSafe(
                           [@ EXCEPT !.status = s, !.progress = r.progress,
                                     !.step = r.label, !.phase = r.phase,
                                     !.error = IF s = "error" THEN "job" ELSE "none",
                                     !.pcResume = NoJob],
                           r.output)]
          /\ sock' = IF s \in {"processing", "pending"}
                     THEN [sock EXCEPT ![t][j] = [FreshSock EXCEPT !.state = "connecting"]]
                     ELSE sock
    /\ UNCHANGED <<serverVars, lastJob, reloads, train, history, saved>>

\* getJobStatus throws inside resumeLastJob: the stored id is removed.
ResumePollFail(t) ==
    /\ tab[t].pcResume # NoJob
    /\ tab' = [tab EXCEPT ![t].pcResume = NoJob]
    /\ lastJob' = NoJob
    /\ UNCHANGED <<serverVars, sock, reloads, train, history, saved>>

\* --------------------------------------------------------- specifications

\* -------------------------------------------------------- parameter panel

\* Width and height are kept divisible by 32, num_frames of the form 1 + 8k
\* between 9 and 4097.
ResolutionStep == 32
FrameStep == 8
MinFrames == 9
MaxFrames == 4097

\* resolutionPresets: width and height of each preset.
resolutionPresets ==
    {<<512, 512>>, <<512, 768>>, <<768, 512>>, <<704, 480>>, <<832, 480>>,
     <<1920, 1088>>, <<3840, 2176>>}

\* framePresets: the frame count of each preset.
framePresets == {17, 33, 65, 241, 721, 1441, 2881, 4097}

\* Positions of the width and height sliders (min 256, max 4096, step 32)
\* and of the frame slider (min 9, max 4097, step 8) that are tried.
SizeSliderValues == {256, 288, 1024, 4064, 4096}
FrameSliderValues == {9, 17, 25, 4089, 4097}

\* Integers typed into the numeric frame input that are tried: below, at and
\* above the limits, on and between the values of the form 1 + 8k, and the
\* halves that Math.round rounds up.
TypedFrames == {0 - 20, 0 - 3, 0, 1, 4, 5, 8, 9, 12, 13, 100, 4092, 4093, 4097, 4100, 5000}

\* Math.round(x / n) * n for an integer x and an even n: halves round up.
RoundTo(x, n) == ((x + n \div 2) \div n) * n

\* 1 + Math.round((v - 1) / 8) * 8.
adjusted(v) == 1 + RoundTo(v - 1, FrameStep)

\* A numeric input that clamps from above only.
clampBelowMax(a) == IF a > MaxFrames THEN MaxFrames ELSE a

\* Math.max(9, Math.min(4097, adjusted)).
clamp(a) ==
    LET m == IF a < MaxFrames THEN a ELSE MaxFrames
    IN IF m > MinFrames THEN m ELSE MinFrames

\* onParamsChange of the panel: the given parameters of session t change.
ResolutionPreset(t, p) ==
    updateParams(t, [tab[t] EXCEPT !.width = p[1], !.height = p[2]])

WidthSlider(t, v) ==
    updateParams(t, [tab[t] EXCEPT !.width = RoundTo(v, ResolutionStep)])

HeightSlider(t, v) ==
    updateParams(t, [tab[t] EXCEPT !.height = RoundTo(v, ResolutionStep)])

FramePreset(t, v) ==
    updateParams(t, [tab[t] EXCEPT !.num_frames = v])

FrameSlider(t, v) ==
    updateParams(t, [tab[t] EXCEPT !.num_frames = adjusted(v)])

\* The numeric input: a text that parseInt reads as v.
FrameInput(t, v) ==
    updateParams(t, [tab[t] EXCEPT !.num_frames = clamp(adjusted(v))])

\* The numeric input with a text that is not a number: nothing changes.
FrameInputNaN(t) ==
    /\ UNCHANGED vars

\* loadFromHistory: the user picks an item of the history tab; an item with a
\* video path is shown as a completed generation.
LoadFromHistory(t) ==
    /\ \E item \in history :
          tab' = [tab EXCEPT ![t] =
                     IF item # "none"
                     THEN [setVideoPathSafe(@, item) EXCEPT !.status = "completed"]
                     ELSE @]
    /\ UNCHANGED <<serverVars, sock, lastJob, reloads, train, history, saved>>

Init ==
    /\ job = [j \in JobIds |-> FreshJob]
    /\ queue = <<>>
    /\ worker = [j \in JobIds |-> "none"]
    /\ nextJob = 1
    /\ cancels = [j \in JobIds |-> 0]
    /\ reply = "none"
    /\ closes = [j \in JobIds |-> 0]
    /\ tab = [t \in Tabs |-> FreshTab]
    /\ sock = [t \in Tabs |-> [j \in JobIds |-> FreshSock]]
    /\ lastJob = NoJob
    /\ reloads = 0
    /\ train = TrainInit
    /\ history = {}
    /\ saved = {}

\* The worker of a job and the controller's handling of its output.
WorkerStep(j) ==
    \/ WorkerProgress(j)
    \/ \E k \in {"temp", "final"} : WorkerArtifact(j, k)
    \/ WorkerErrorLine(j)
    \/ \E code \in {0, 1} : WorkerExit(j, code)
    \/ Finalize(j)

\* A browser tab: its user, its pending calls and its sockets.
TabStep(t) ==
    \/ FillIn(t)
    \/ HandleGenerate(t)
    \/ StartGenerationResolve(t)
    \/ StartGenerationReject(t)
    \/ \E j \in JobIds : WsAccept(t, j)
    \/ \E j \in JobIds : WsDeliver(t, j)
    \/ \E j \in JobIds : WsClose(t, j)
    \/ \E j \in JobIds : WsError(t, j)
    \/ Reload(t)
    \/ ResumePollResolve(t)
    \/ ResumePollFail(t)
    \/ ProbeOk(t)
    \/ ProbeGiveUp(t)

\* One browser session generating and observing, with a reload.
Next ==
    \/ Admit
    \/ LaunchFail
    \/ \E j \in JobIds : WorkerStep(j)
    \/ TabStep("A")

Spec == Init /\ [][Next]_vars

\* The same session with the callbacks the browser and the servers are bound
\* to run: accepted connections, message and close events, the controller's
\* admission and its handling of a worker's exit.  User actions, failures
\* and a worker's own pace are not forced.
Fairness ==
    /\ WF_vars(Admit)
    /\ \A j \in JobIds : WF_vars(Finalize(j))
    /\ \A j \in JobIds : WF_vars(WsAccept("A", j))
    /\ \A j \in JobIds : WF_vars(WsDeliver("A", j))
    /\ \A j \in JobIds : WF_vars(WsClose("A", j))

SpecLive == Spec /\ Fairness

\* The session while its job is also cancelled through the cancel interface,
\* next to an open training form; the worker writes its final file only and
\* no temp-file probe answers.
NextStop ==
    \/ Admit
    \/ \E j \in JobIds : WorkerProgress(j)
    \/ \E j \in JobIds : WorkerArtifact(j, "final")
    \/ \E j \in JobIds : WorkerErrorLine(j)
    \/ \E j \in JobIds, code \in {0, 1} : WorkerExit(j, code)
    \/ \E j \in JobIds : Finalize(j)
    \/ FillIn("A")
    \/ HandleGenerate("A")
    \/ StartGenerationResolve("A")
    \/ StartGenerationReject("A")
    \/ \E j \in JobIds : WsAccept("A", j)
    \/ \E j \in JobIds : WsDeliver("A", j)
    \/ \E j \in JobIds : WsClose("A", j)
    \/ \E j \in JobIds : WsError("A", j)
    \/ Reload("A")
    \/ ResumePollResolve("A")
    \/ \E j \in GenJobs : Cancel(j)
    \/ handleStopTraining

SpecStop == Init /\ [][NextStop]_vars

\* Reattach: the page load of a session and its resumed subscription.
ResumeStep(t) ==
    \/ Reload(t)
    \/ ResumePollResolve(t)
    \/ \E j \in JobIds : WsAccept(t, j)
    \/ \E j \in JobIds : WsDeliver(t, j)
    \/ \E j \in JobIds : WsClose(t, j)

\* Two sessions of the same browser, sharing localStorage: session A submits
\* and observes, session B is opened later and reattaches.  Connections do
\* not fail, slow consumers are disconnected.
NextTabs ==
    \/ FillIn("A")
    \/ HandleGenerate("A")
    \/ StartGenerationResolve("A")
    \/ Admit
    \/ \E j \in JobIds : WorkerProgress(j)
    \/ \E j \in JobIds : WorkerArtifact(j, "final")
    \/ \E j \in JobIds : WorkerErrorLine(j)
    \/ \E j \in JobIds, code \in {0, 1} : WorkerExit(j, code)
    \/ \E j \in JobIds : Finalize(j)
    \/ \E t \in Tabs : ResumeStep(t)

SpecTabs == Init /\ [][NextTabs]_vars

\* The two sessions with connections that may fail, observing a job whose
\* worker succeeds.
NextDrop ==
    \/ FillIn("A")
    \/ HandleGenerate("A")
    \/ StartGenerationResolve("A")
    \/ Admit
    \/ \E j \in JobIds : WorkerProgress(j)
    \/ \E j \in JobIds : WorkerArtifact(j, "final")
    \/ \E j \in JobIds : WorkerExit(j, 0)
    \/ \E j \in JobIds : Finalize(j)
    \/ \E t \in Tabs : ResumeStep(t)
    \/ \E t \in Tabs, j \in JobIds : WsError(t, j)

SpecDrop == Init /\ [][NextDrop]_vars

\* The controller driven through its external interfaces.
NextCtl ==
    \/ ApiSubmit(CtlJobs)
    \/ Admit
    \/ LaunchFail
    \/ \E j \in JobIds : WorkerStep(j)
    \/ \E j \in CtlJobs : Cancel(j)
    \/ handleStopTraining

SpecCtl == Init /\ [][NextCtl]_vars

\* Admission control: one job more than the cap, workers that fail, finish
\* or are cancelled.
NextAdm ==
    \/ ApiSubmit(JobIds)
    \/ Admit
    \/ LaunchFail
    \/ \E j \in JobIds : WorkerArtifact(j, "final")
    \/ \E j \in JobIds, code \in {0, 1} : WorkerExit(j, code)
    \/ \E j \in JobIds : Finalize(j)
    \/ \E j \in JobIds : Cancel(j)

SpecAdm == Init /\ [][NextAdm]_vars

\* One session observing a job whose worker writes raw lines of any phase and
\* fraction in any order and exits with success, with a reload and reattach.
NextParse ==
    \/ FillIn("A")
    \/ HandleGenerate("A")
    \/ StartGenerationResolve("A")
    \/ Admit
    \/ \E j \in JobIds, line \in RawLines : WorkerLine(j, line)
    \/ \E j \in JobIds : WorkerArtifact(j, "final")
    \/ \E j \in JobIds : WorkerExit(j, 0)
    \/ \E j \in JobIds : Finalize(j)
    \/ ResumeStep("A")

SpecParse == Init /\ [][NextParse]_vars

\* The same session with its history tab.
NextHist ==
    \/ NextParse
    \/ LoadFromHistory("A")

SpecHist == Init /\ [][NextHist]_vars

\* The parameter panel of one session: every edit of resolution and frames.
NextPanel ==
    \/ \E p \in resolutionPresets : ResolutionPreset("A", p)
    \/ \E v \in SizeSliderValues : WidthSlider("A", v)
    \/ \E v \in SizeSliderValues : HeightSlider("A", v)
    \/ \E v \in framePresets : FramePreset("A", v)
    \/ \E v \in FrameSliderValues : FrameSlider("A", v)
    \/ \E v \in TypedFrames : FrameInput("A", v)
    \/ FrameInputNaN("A")

SpecPanel == Init /\ [][NextPanel]_vars

\* The raw lines of a worker that mixes structured progress lines of its
\* computing phase with text the parser does not recognize.
NoisyLines == {l \in RawLines : ~Recognized(l) \/ (l.structured /\ l.kw = {1})}

\* One session on a connection that also carries frames it cannot use,
\* observing a worker whose output has lines the parser does not recognize.
NextNoise ==
    \/ FillIn("A")
    \/ HandleGenerate("A")
    \/ StartGenerationResolve("A")
    \/ Admit
    \/ \E j \in JobIds, line \in NoisyLines : WorkerLine(j, line)
    \/ \E j \in JobIds : WorkerArtifact(j, "final")
    \/ \E j \in JobIds : WorkerExit(j, 0)
    \/ \E j \in JobIds : Finalize(j)
    \/ \E j \in JobIds : WsAccept("A", j)
    \/ \E j \in JobIds : WsDeliver("A", j)
    \/ \E j \in JobIds : WsClose("A", j)
    \/ \E j \in JobIds : WsNoise("A", j)

SpecNoise == Init /\ [][NextNoise]_vars

\* One session whose jobs write temporary previews: every HEAD probe of a
\* preview, one generation after another.
NextProbe ==
    \/ FillIn("A")
    \/ HandleGenerateIn("A", JobIds)
    \/ StartGenerationResolveIn("A", JobIds)
    \/ Admit
    \/ \E j \in JobIds, k \in {"temp", "final"} : WorkerArtifact(j, k)
    \/ \E j \in JobIds, code \in {0, 1} : WorkerExit(j, code)
    \/ \E j \in JobIds : Finalize(j)
    \/ \E j \in JobIds : WsAccept("A", j)
    \/ \E j \in JobIds : WsDeliver("A", j)
    \/ \E j \in JobIds : WsClose("A", j)
    \/ ProbeOk("A")
    \/ ProbeRetry("A")
    \/ ProbeLastFail("A")

SpecProbe == Init /\ [][NextProbe]_vars

\* One session from its first visit on: parameters edited in the panel, the
\* storage effects, the defaults request and a reload.
NextDefaults ==
    \/ \E p \in resolutionPresets : ResolutionPreset("A", p)
    \/ \E v \in framePresets : FramePreset("A", v)
    \/ SaveEffect("A")
    \/ DefaultsResolve("A")
    \/ DefaultsReject("A")
    \/ Reload("A")

SpecDefaults == Init /\ [][NextDefaults]_vars

\* The enhancer controls of one session: provider, base URL and model, with
\* the answers of its model-list requests in any order, and a reload.
NextModels ==
    \/ \E provider \in EnhanceProviders : ProviderChange("A", provider)
    \/ \E text \in BaseUrls : BaseUrlInput("A", text)
    \/ \E m \in {"m1", "m2"} : ModelSelect("A", m)
    \/ \E r \in tab["A"].requests, list \in ModelLists : ModelsResolve("A", r, list)
    \/ \E r \in tab["A"].requests : ModelsReject("A", r)
    \/ Reload("A")

SpecModels == Init /\ [][NextModels]_vars

\* The pipelines of the model selector that are tried.
Pipelines == {"distilled", "keyframe", "ic_lora"}

\* One session and its form: prompt, pipeline, conditioning media and prompt
\* enhancement, with generations one after another and a reload.
NextGate ==
    \/ \E text \in Prompts : PromptInput("A", text)
    \/ \E v \in Pipelines : PipelineChange("A", v)
    \/ \E path \in {"none", "img"} : ConditioningImage("A", path)
    \/ \E path \in {"none", "vid"} : VideoConditioning("A", path)
    \/ RunEnhance("A")
    \/ EnhanceResolve("A")
    \/ EnhanceReject("A")
    \/ HandleGenerateIn("A", JobIds)
    \/ StartGenerationResolveIn("A", JobIds)
    \/ StartGenerationReject("A")
    \/ Admit
    \/ \E j \in JobIds : WorkerExit(j, 1)
    \/ \E j \in JobIds : Finalize(j)
    \/ \E j \in JobIds : WsAccept("A", j)
    \/ \E j \in JobIds : WsDeliver("A", j)
    \/ Reload("A")
    \/ ResumePollResolve("A")

SpecGate == Init /\ [][NextGate]_vars

\* One session that generates one job after another, with a reload; the
\* controller runs RunCap jobs at a time.
NextMove ==
    \/ FillIn("A")
    \/ HandleGenerateIn("A", JobIds)
    \/ StartGenerationResolveIn("A", JobIds)
    \/ Admit
    \/ \E j \in JobIds : WorkerProgress(j)
    \/ \E j \in JobIds : WorkerArtifact(j, "final")
    \/ \E j \in JobIds, code \in {0, 1} : WorkerExit(j, code)
    \/ \E j \in JobIds : Finalize(j)
    \/ ResumeStep("A")

SpecMove == Init /\ [][NextMove]_vars
\* ------------------------------------------------------------- properties

ClientTerminal == {"completed", "error", "stopped"}

\* The step is a user action on tab t: a click on Generate or a page load.
UserStep(t) ==
    \/ tab[t].pcGen = "idle" /\ tab'[t].pcGen = "starting"
    \/ reloads' # reloads

Attached(t, j) ==
    /\ \/ sock[t][j].state = "open"
       \/ sock[t][j].state = "closing" /\ sock[t][j].end = "clean"
    /\ Len(sock[t][j].log) >= 1
    /\ sock[t][j].log[1].type = "status"
    /\ sock[t][j].rd = Len(sock[t][j].log)

\* C2 as stated: after attaching, the observer's status and progress equal
\* the registry's.
C2_ObserverEqualsRegistry ==
    \A t \in Tabs, j \in JobIds :
        Attached(t, j) =>
            /\ tab[t].status = WireStatus(job[j].status)
            /\ tab[t].progress = job[j].progress

\* C2, what the handler does achieve: the observer's progress equals the
\* registry's, and so does its status except that a pending job is shown
\* as processing.
C2_EqualButPending ==
    \A t \in Tabs, j \in JobIds :
        Attached(t, j) =>
            /\ tab[t].progress = job[j].progress
            /\ tab[t].status =
                 IF job[j].status = "pending" THEN "processing"
                 ELSE WireStatus(job[j].status)

\* The client holds a terminal status or the connection-lost signal.
Informed(t) == tab[t].status \in ClientTerminal \/ tab[t].error = "lost"

\* C3 as stated: once the job has terminated, a client observing it
\* eventually holds a terminal status or the connection-lost signal (or has
\* left the job by a page load).
C3_EventuallyInformed ==
    \A j \in GenJobs :
        (job[j].status \in Terminal /\ sock["A"][j].state # "free")
            ~> (Informed("A") \/ sock["A"][j].state = "free")

\* The socket was subscribed when the job was terminal already: the snapshot
\* replayed to it is a terminal event.
LateSubscriber(t, j) ==
    Len(sock[t][j].log) >= 1 /\ IsTerminalEvent(sock[t][j].log[1])

\* C4: a subscriber that connects after the job reached a terminal state is
\* sent exactly one event, the terminal one, and the server then ends the
\* stream cleanly.
C4_LateSubscriberOneEvent ==
    \A t \in Tabs, j \in JobIds :
        LateSubscriber(t, j) =>
            /\ Len(sock[t][j].log) = 1
            /\ sock[t][j].end = "clean"
            /\ sock[t][j].state \in {"closing", "closed", "failed"}
            /\ sock[t][j].log[1].type = TerminalType(job[j].status)

\* C4 witness: the job completed after progress lines were parsed, the
\* resumed session connected afterwards, handled the one event and saw the
\* stream close.
C4_Witness ==
    \E j \in GenJobs :
        /\ LateSubscriber("A", j)
        /\ job[j].status = "completed" /\ reloads > 0
        /\ sock["A"][j].rd = 1 /\ sock["A"][j].state = "closed"
        /\ tab["A"].status = "completed"

\* The tab subscribed to job j while it was not terminal, stayed subscribed
\* until the topic closed and has handled every message.
Followed(t, j) ==
    /\ Len(sock[t][j].log) >= 1
    /\ sock[t][j].log[1].type = "status"
    /\ sock[t][j].end = "clean"
    /\ sock[t][j].rd = Len(sock[t][j].log)

CancelStep(j) == cancels'[j] = cancels[j] + 1

\* C6: cancel is idempotent.  A cancel request for a job that is terminal
\* already changes nothing and is answered ok, and no job has more than one
\* terminal event published, however often it is cancelled.
C6_CancelIdempotent ==
    /\ [](\A j \in JobIds : closes[j] <= 1)
    /\ [][\A j \in JobIds :
            CancelStep(j) /\ job[j].status \in Terminal =>
                /\ UNCHANGED <<job, queue, worker, closes, sock, tab, train, history, saved>>
                /\ reply' = "ok"]_vars

\* C6 witness: a running job was cancelled twice; it is stopped, its one
\* terminal event is out and its killed worker has been reaped.
C6_Witness ==
    \E j \in CtlJobs :
        /\ cancels[j] = MaxCancels /\ reply = "ok"
        /\ job[j].status = "stopped" /\ closes[j] = 1
        /\ worker[j] = "reaped"

RunningJobs == {j \in JobIds : job[j].status = "running"}
PendingJobs == {j \in JobIds : job[j].status = "pending"}

\* C8: admission control.  Never more than RunCap jobs are running; when
\* RunCap + 1 jobs are submitted, none has ended and the controller has
\* admitted what it can, exactly one is pending; a job is admitted only if
\* no job submitted before it is still pending.
C8_AdmissionControl ==
    /\ [](Cardinality(RunningJobs) <= RunCap)
    /\ [](nextJob > RunCap + 1
            /\ (\A j \in 1..(RunCap + 1) : job[j].status \in NonTerminal)
            /\ ~CanAdmit
          => Cardinality(PendingJobs) = 1)
    /\ [][\A j \in JobIds :
            job[j].status = "pending" /\ job'[j].status = "running" =>
                \A k \in PendingJobs : j <= k]_vars

\* C8 witness: the job submitted beyond the cap runs after every job
\* submitted before it has ended.
C8_Witness ==
    /\ job[RunCap + 1].status = "running"
    /\ \A k \in 1..RunCap : job[k].status \in Terminal /\ worker[k] = "reaped"

\* C9: completed implies an output path.  A completed job record has its
\* final artifact (so an exit with code 0 and no artifact path is an error),
\* and a client showing completed has a video path.
C9_CompletedHasOutput ==
    /\ \A j \in JobIds : job[j].status = "completed" => job[j].output = "final"
    /\ \A j \in JobIds :
         worker[j] = "reaped" /\ job[j].output # "final" => job[j].status # "completed"
    /\ \A t \in Tabs : tab[t].status = "completed" => tab[t].videoPath # "none"

\* C9 witness: the session that submitted the job shows it completed with
\* the final artifact, after the preview of a temp file.
C9_Witness ==
    \E j \in GenJobs :
        /\ job[j].status = "completed" /\ job[j].output = "final"
        /\ tab["A"].status = "completed" /\ tab["A"].videoPath = "final"
        /\ \E i \in 1..Len(sock["A"][j].log) : sock["A"][j].log[i].output = "temp"

InQueue(j) == \E i \in 1..Len(queue) : queue[i] = j

IsSnapshot(e) == e.type \in {"progress", "status"}

\* The messages of every connection carry, within one phase, fractions that
\* never decrease from one message to the next.
LogMonotone ==
    \A t \in Tabs, j \in JobIds :
        \A i \in 1..(Len(sock[t][j].log) - 1) :
            LET a == sock[t][j].log[i]
                b == sock[t][j].log[i + 1]
            IN (IsSnapshot(a) /\ IsSnapshot(b) /\ a.phase = b.phase)
                   => a.progress <= b.progress

\* Session t shows the progress of a running job before and after the step.
ShowsProgress(t) == tab[t].status = "processing" /\ tab'[t].status = "processing"

KeywordLabels(t) == tab[t].step # {} /\ tab'[t].step # {}

\* C12: the phase the indicator derives by keyword matching from the
\* successive labels of one job never moves backward: while the job's
\* progress is shown, a later label whose keywords match an earlier phase
\* does not regress the phase reached.
C12_StepNeverRegresses ==
    [][\A t \in Tabs :
          (ShowsProgress(t) /\ KeywordLabels(t))
              => getCurrentStepIndex(tab'[t]) >= getCurrentStepIndex(tab[t])]_vars

\* A label with keywords of several phases yields the most advanced of them.
C12_MostAdvancedKeyword ==
    \A t \in Tabs :
        tab[t].step # {} => getCurrentStepIndex(tab[t]) = Max(tab[t].step)

\* ---------------------------------------------------------------- C13

\* C13: in every state in which a job's status is completed its progress is
\* 100%, in the registry and in every session that shows the job as
\* completed, however the session learned of the completion.
C13_CompletedIsFull ==
    /\ \A j \in JobIds : job[j].status = "completed" => job[j].progress = Full
    /\ \A t \in Tabs : tab[t].status = "completed" => tab[t].progress = Full

\* ---------------------------------------------------------------- C14

\* The messages a session has handled on a connection are in publish order:
\* after the snapshot, each has a later position on the topic than the one
\* handled before it.
HandledInPublishOrder(t, j) ==
    \A i \in 1..sock[t][j].rd, k \in 1..sock[t][j].rd :
        i < k => /\ sock[t][j].log[i].seq <= sock[t][j].log[k].seq
                 /\ i > 1 => sock[t][j].log[i].seq < sock[t][j].log[k].seq

\* A step in which session t handles a message of connection j hands the
\* oldest message not yet handled to the handler.
HandlesOldest(t, j) ==
    sock'[t][j].rd > sock[t][j].rd
        => /\ sock'[t][j].rd = sock[t][j].rd + 1
           /\ tab'[t] = onMessage(tab[t], sock[t][j].log[sock[t][j].rd + 1])
           /\ sock'[t][j].log[sock'[t][j].rd] = sock[t][j].log[sock[t][j].rd + 1]

\* C14: within one job every subscriber handles the job's events in publish
\* order: no event is handled before one published earlier, and the client
\* hands the messages to its handler in the order of arrival.
C14_PublishOrder ==
    /\ [](\A t \in Tabs, j \in JobIds : HandledInPublishOrder(t, j))
    /\ [][\A t \in Tabs, j \in JobIds : HandlesOldest(t, j)]_vars

\* Both sessions have handled three messages of the same job, and two
\* messages were waiting at one session at the same time.
C14_Witness ==
    \E j \in JobIds :
        /\ sock["A"][j].rd >= 3
        /\ sock["B"][j].rd >= 2
        /\ InFlight(sock["B"][j]) >= 2

\* ---------------------------------------------------------------- C15

\* What the registry, the supervisor and the broadcaster keep for job j.
Kept(j) == <<job[j], worker[j], closes[j], [t \in Tabs |-> sock[t][j]]>>

\* What a session displays: status, progress, error and output.
Display(c) == <<c.status, c.progress, c.error, c.videoPath>>

\* The step is an event of job a: its record, its worker or its topic change.
EventOf(a) == <<job[a], worker[a], closes[a]>>' # <<job[a], worker[a], closes[a]>>

\* Session t handles a message on its socket for job a.
Handles(t, a) == sock'[t][a].rd = sock[t][a].rd + 1

\* Session t has moved on from job a: it has opened a socket for a later job.
MovedOn(t, a) == \E b \in JobIds : b > a /\ sock[t][b].state # "free"

\* An event of one job leaves what is kept for every other job unchanged.
C15_RecordsIsolated ==
    [][\A a \in JobIds, b \in JobIds :
          (a # b /\ EventOf(a) /\ job[b].status # "none") => Kept(b)' = Kept(b)]_vars

\* C15: events of one job never alter the state kept for another job, and a
\* client that has moved on to a later job never has its displayed status,
\* progress, error or output changed by a message arriving on a socket
\* opened for an earlier job.
C15_JobIsolation ==
    [][/\ \A a \in JobIds, b \in JobIds :
            (a # b /\ EventOf(a) /\ job[b].status # "none") => Kept(b)' = Kept(b)
       /\ \A t \in Tabs, a \in JobIds :
            (Handles(t, a) /\ MovedOn(t, a)) => Display(tab'[t]) = Display(tab[t])]_vars

\* ---------------------------------------------------------------- C16

\* The connection of session t for job j is live.
Live(s) == s.state \in {"connecting", "open", "closing"}

\* Session t disconnects from job j in this step: its connection fails or
\* its page is closed.
Disconnects(t, j) == Live(sock[t][j]) /\ sock'[t][j].state \in {"failed", "free"}

\* The events a subscriber received are a run of the topic without gaps.
NoGaps(s) == \A i \in 1..(Len(s.log) - 1) : s.log[i + 1].seq = s.log[i].seq + 1

\* C16: a client disconnect only removes that client's subscription: the
\* job's record is unchanged by it, so are the connections and displays of
\* the other sessions, and the events every other subscriber receives
\* afterwards are the topic's events without a gap.
C16_DisconnectIsLocal ==
    /\ [](\A t \in Tabs, j \in JobIds : NoGaps(sock[t][j]))
    /\ [][\A t \in Tabs, j \in JobIds :
            Disconnects(t, j) =>
                /\ UNCHANGED <<job, queue, worker, closes>>
                /\ \A u \in Tabs \ {t} : sock'[u] = sock[u] /\ tab'[u] = tab[u]]_vars

\* Session A lost its connection to a job; session B, subscribed to the
\* same job, has since handled events published after A's last one, up to
\* the terminal event.
C16_Witness ==
    \E j \in JobIds :
        /\ sock["A"][j].state = "failed"
        /\ Len(sock["A"][j].log) >= 1
        /\ sock["B"][j].state = "closed"
        /\ sock["B"][j].rd >= 3
        /\ sock["B"][j].log[1].type = "status"
        /\ sock["B"][j].log[sock["B"][j].rd].seq
               > sock["A"][j].log[Len(sock["A"][j].log)].seq + 1
        /\ job[j].status = "completed"

\* ---------------------------------------------------------------- C17

\* The submit request of session t fails in this step: the pending call
\* returns to the page that made it and the server has created no job.
Rejected(t) ==
    /\ tab[t].pcGen = "starting"
    /\ tab'[t].pcGen = "idle"
    /\ nextJob' = nextJob
    /\ reloads' = reloads

\* C17: a rejected submission never enters the job model: in the step in
\* which the submit request fails the session shows status error with the
\* message, no job record is created, no job id is stored as the last job
\* and no socket is opened.
C17_RejectedSubmission ==
    [][\A t \in Tabs :
          Rejected(t) =>
              /\ tab'[t].status = "error"
              /\ tab'[t].error = "submit"
              /\ UNCHANGED <<job, queue, worker, lastJob, sock>>]_vars

\* A first submission was rejected: the session shows the error, the
\* registry is empty, no last job is stored and no socket exists.
C17_Witness ==
    /\ tab["A"].status = "error"
    /\ tab["A"].error = "submit"
    /\ tab["A"].pcGen = "idle"
    /\ nextJob = 1
    /\ \A j \in JobIds : job[j].status = "none" /\ sock["A"][j].state = "free"
    /\ lastJob = NoJob

\* ---------------------------------------------------------------- C18

\* The status read of session t returns in this step.
PollStep(t) ==
    /\ tab[t].pcResume # NoJob
    /\ tab'[t].pcResume = NoJob
    /\ reloads' = reloads

\* The connections subscribed to a topic.
Subscribed(s) == s.state \in {"open", "closing"}

C19_PanelKeepsGrid ==
    /\ [](\A t \in Tabs :
            /\ tab[t].width % ResolutionStep = 0
            /\ tab[t].height % ResolutionStep = 0
            /\ tab[t].num_frames % FrameStep = 1
            /\ tab[t].num_frames >= MinFrames
            /\ tab[t].num_frames <= MaxFrames)
    /\ [][\A t \in Tabs, v \in TypedFrames :
            FrameInput(t, v) =>
                /\ tab'[t].num_frames >= MinFrames
                /\ tab'[t].num_frames <= MaxFrames
                /\ tab'[t].num_frames % FrameStep = 1]_vars

\* Width and height were moved off their defaults by the sliders and a
\* number above the upper limit was typed into the frame input.
C19_Witness ==
    /\ tab["A"].width = 4096
    /\ tab["A"].height = 288
    /\ tab["A"].num_frames = MaxFrames

\* ---------------------------------------------------------------- C20

\* The transitions of the job state machine (section 4.4), with the creation
\* of the record.
JobOrder ==
    {<<"none", "pending">>, <<"pending", "running">>, <<"pending", "stopped">>,
     <<"running", "completed">>, <<"running", "error">>, <<"running", "stopped">>}

\* The same order in the status names a session shows; a page that has just
\* been loaded shows idle until it learns the status of its job.
ShownOrder ==
    {<<"idle", s>> : s \in {"pending", "processing", "completed", "error", "stopped"}}
        \cup {<<"pending", s>> : s \in {"processing", "completed", "error", "stopped"}}
        \cup {<<"processing", s>> : s \in {"completed", "error", "stopped"}}

\* Session t starts a new job or loads its page anew in this step.
StartsAnew(t) ==
    \/ tab[t].pcGen = "idle" /\ tab'[t].pcGen = "starting"
    \/ reloads' # reloads

\* Every change of a job's status in the registry follows the state machine.
C20_RegistryOrder ==
    [][\A j \in JobIds :
          job'[j].status # job[j].status
              => <<job[j].status, job'[j].status>> \in JobOrder]_vars

\* C20: a job's status changes only along pending -> running -> completed,
\* error or stopped (and pending -> stopped), never back to pending, and the
\* status a session shows for its job follows the same order: pending, then
\* processing, then a terminal status.
C20_StatusOrder ==
    [][/\ \A j \in JobIds :
            job'[j].status # job[j].status
                => <<job[j].status, job'[j].status>> \in JobOrder
       /\ \A t \in Tabs :
            (tab'[t].status # tab[t].status /\ ~StartsAnew(t))
                => <<tab[t].status, tab'[t].status>> \in ShownOrder]_vars

\* The registry's record of job j as an observer can read it.
Record(j) == <<job[j].status, job[j].progress, job[j].phase, job[j].label, job[j].output>>

\* What the page shows of a job: status, progress, label, output path (shown
\* or being probed) and error.
Shown(c) == <<c.status, c.progress, c.step, c.videoPath, c.probe, c.error>>

\* The step parses a raw line of job j that yields no event.
AbsorbsLine(j) == job'[j].lines = job[j].lines + 1 /\ job'[j].seq = job[j].seq

\* The step hands session t a frame of job j's socket that is not a message
\* of a known type.
HandlesNoise(t, j) == Handles(t, j) /\ IsNoise(sock[t][j].log[sock[t][j].rd + 1])

\* C21: unrecognized input is a no-op.  A raw line the parser does not
\* recognize leaves the job's status, progress, phase, label and output as
\* they were and publishes nothing; a socket frame that cannot be parsed or
\* has no known type leaves the status, progress, label, output path and
\* error shown, the stored last job and the history as they were, and the
\* socket goes on to its next message.
C21_UnrecognizedIsNoOp ==
    [][/\ \A j \in JobIds :
            AbsorbsLine(j) =>
                /\ Record(j)' = Record(j)
                /\ <<closes, sock, worker, queue>>' = <<closes, sock, worker, queue>>
       /\ \A t \in Tabs, j \in JobIds :
            HandlesNoise(t, j) =>
                /\ Shown(tab'[t]) = Shown(tab[t])
                /\ <<lastJob, history>>' = <<lastJob, history>>
                /\ sock'[t][j] = [sock[t][j] EXCEPT !.rd = @ + 1]]_vars

\* A session has handled a frame it could not use and, after it, the
\* complete message of the job, which it shows; the job's worker wrote lines
\* and nothing but its artifact and its end was published.
C21_Witness ==
    \E t \in Tabs, j \in JobIds :
        /\ \E i \in 1..sock[t][j].rd, k \in 1..sock[t][j].rd :
              /\ i < k
              /\ IsNoise(sock[t][j].log[i])
              /\ sock[t][j].log[k].type = "complete"
        /\ tab[t].status = "completed"
        /\ tab[t].videoPath = "final"
        /\ job[j].lines > 0
        /\ job[j].seq = closes[j] + 1
\* The session shows a job of its own as finished or failed.
SeenTerminal(t) == tab[t].status \in {"completed", "error"}

\* C22: the stored last-job id names a job the client still has to follow.
\* Once the session has seen its job as completed or error, from a message or
\* from the status read made on reload, no job id is left stored.
C22_LastJobIsFollowed ==
    \A t \in Tabs : SeenTerminal(t) => lastJob = NoJob

\* C22, second part: a failed status read for a job that is still pending or
\* running does not discard the stored id.
C22_PollFailureKeeps ==
    [][\A t \in Tabs :
          (/\ tab[t].pcResume # NoJob
           /\ tab'[t].pcResume = NoJob
           /\ job[tab[t].pcResume].status \in NonTerminal)
              => lastJob' = lastJob]_vars
\* The step is a probe of session t setting the video path.
ProbeSets(t) ==
    /\ tab[t].probe
    /\ tab'[t].videoPath = "temp"
    /\ tab'[t].videoPath # tab[t].videoPath

\* C23: the preview shown stems from the most recent request.  A probe never
\* sets the video path after a new generation was started, which cleared the
\* path.
C23_PreviewOfLatestRequest ==
    [][\A t \in Tabs : ProbeSets(t) => ~tab[t].cleared]_vars

\* C23, the part on attempts: a probe has made no more than 10 attempts, and
\* only a running probe has made any.
C23_ProbeStops ==
    \A t \in Tabs :
        /\ tab[t].attempt < MaxAttempts
        /\ ~tab[t].probe => tab[t].attempt = 0

\* C23, the part on later calls: a call of setVideoPathSafe with a final path
\* while a probe runs shows the final path and ends the probe's say.
C23_LaterCallWins ==
    [][\A t \in Tabs :
          (tab[t].probe /\ tab'[t].videoPath = "final") => ~tab'[t].probe]_vars
\* C24: the server defaults are merged into the parameters exactly when no
\* saved parameters existed when the page was opened.  They are merged at most
\* once, and on a first visit, which the page before its first reload is,
\* they have been merged once the answers of the defaults request have
\* arrived.
C24_DefaultsIffFirstVisit ==
    \A t \in Tabs :
        /\ tab[t].merged <= 1
        /\ (reloads = 0 /\ tab[t].hardware = "loaded") => tab[t].merged = 1

\* C24, the part on restored parameters: the defaults are merged only while
\* nothing is stored, and so, as a stored item is never removed, only on a
\* page that was opened without saved parameters; they are merged once.
C24_RestoredAreKept ==
    [][\A t \in Tabs :
          tab'[t].merged > tab[t].merged => (saved = {} /\ tab'[t].merged = 1)]_vars
\* The step is a click on Generate in session t that handleGenerate acts on.
Generates(t) == tab[t].pcGen = "idle" /\ tab'[t].pcGen = "starting"

\* The generation jobs that were submitted and are not yet terminal.
JobsInFlight == {j \in JobIds : job[j].status \in NonTerminal}

\* C25, the gate: Generate acts only on a non-blank prompt, with no job shown
\* as pending or processing, no prompt enhancement running, a conditioning
\* video for ic_lora and a conditioning image for keyframe; and the status
\* is pending before the requests of handleGenerate are awaited.
C25_GenerateGate ==
    [][\A t \in Tabs :
          Generates(t) =>
              /\ tab[t].prompt \notin {"", " "}
              /\ tab[t].status \notin {"pending", "processing"}
              /\ ~tab[t].isEnhancing
              /\ tab[t].pipeline = "ic_lora" => tab[t].video_conditioning # "none"
              /\ tab[t].pipeline = "keyframe" => tab[t].conditioning_image # "none"
              /\ tab'[t].status = "pending"]_vars

\* C25: a client never has two submitted generation jobs in flight at once.
C25_OneJobInFlight == Cardinality(JobsInFlight) <= 1

\* C26: the training form shows a training in progress (Stop in place of
\* Start, the form disabled) only for a training job it has started, so that
\* Start is offered in the initial state and Stop always has a job id to stop.
C26_StopHasJob == isTraining => train.jobId # NoJob

\* The messages that the handler of session t has been handed on its socket
\* for job j.
Handled(t, j) == {sock[t][j].log[i] : i \in 1..sock[t][j].rd}

\* C27: the history holds the completed jobs the client observed, those
\* included whose completion it observed after a reload through the
\* subscription of resumeLastJob: the video of every complete message that
\* a session has handled is in the history.
C27_HistoryHoldsObserved ==
    \A t \in Tabs, j \in JobIds :
        \A e \in Handled(t, j) : e.type = "complete" => e.output \in history

\* C28, the round trip: the parameters that a page load restores from
\* local storage are the parameters the form held when they were saved.
C28_RoundTrip ==
    [][\A t \in Tabs :
          (reloads' = reloads + 1 /\ saved = {stringify(Params(tab[t]))})
              => Params(tab'[t]) = Params(tab[t])]_vars

\* C28, idempotence: sanitizeParams leaves what it returned as it is.
C28_SanitizeIdempotent ==
    \A text \in saved :
        sanitizeParams(sanitizeParams(JSONparse(text))) = sanitizeParams(JSONparse(text))

\* The step is the answer, or the failure, of the model-list request r of
\* session t.
Answers(t, r) ==
    /\ reloads' = reloads
    /\ r \in tab[t].requests
    /\ tab'[t].requests = tab[t].requests \ {r}

EnhancerShown(c) == <<c.enhanceModels, c.enhanceModel, c.enhanceError>>

\* C29: the answer or failure of a superseded model-list request changes
\* neither the model list nor the selected model nor the error, and a request
\* whose answer is applied was issued for the current provider and base URL.
C29_LatestRequestOnly ==
    [][\A t \in Tabs : \A r \in tab[t].requests :
          Answers(t, r) =>
              IF r.cancelled
              THEN EnhancerShown(tab'[t]) = EnhancerShown(tab[t])
              ELSE /\ r.provider = tab[t].enhanceProvider
                   /\ r.baseUrl = baseUrlOf(tab[t].enhanceProvider,
                                            tab[t].enhanceBaseUrl)]_vars

\* A superseded request has answered while the list of a later request is
\* shown and another superseded request is still out.
C29_Witness ==
    \E t \in Tabs :
        /\ tab[t].discarded
        /\ tab[t].enhanceModels # <<>>
        /\ \E r \in tab[t].requests : r.cancelled
====
